---- MODULE Spec2Model ----
(***************************************************************************)
(* Staff clock: the position acquirer (src/lib/geo.ts getCurrentPosition), *)
(* the geofence evaluator (haversineDistance) and the clock-in page        *)
(* (src/app/page.tsx HomePage) that gates check-in/check-out on them.       *)
(*                                                                         *)
(* Numbers.  A JavaScript number that carries a fraction is modelled as a  *)
(* decimal floating-point value [nan, m, e] = m * 10^e with a four digit   *)
(* mantissa (1000 <= |m| <= 9999, or m = 0), rounded half away from zero,  *)
(* so that every product fits a 32-bit integer.  Coordinates are           *)
(* held as integers in units of 1e-4 degree (6.2442 deg = 62442), so the   *)
(* difference of two coordinates is exact, as it is to 15 digits in the    *)
(* program's doubles.                                                      *)
(***************************************************************************)
EXTENDS Integers, Sequences, FiniteSets, TLC

\* ------------------------------------------------------------------------
\* JavaScript numbers
\* ------------------------------------------------------------------------

Abs(n) == IF n < 0 THEN -n ELSE n

Sgn(n) == IF n < 0 THEN -1 ELSE IF n > 0 THEN 1 ELSE 0

\* n / d rounded to the nearest integer, halves away from zero (d > 0)
RoundDiv(n, d) ==
    Sgn(n) * ((Abs(n) \div d) + (IF 2 * (Abs(n) % d) >= d THEN 1 ELSE 0))

Pow10(k) ==
    CASE k = 0 -> 1
      [] k = 1 -> 10
      [] k = 2 -> 100
      [] k = 3 -> 1000
      [] k = 4 -> 10000
      [] k = 5 -> 100000
      [] OTHER -> 1000000

F(m, e) == [nan |-> FALSE, m |-> m, e |-> e]

NaN == [nan |-> TRUE, m |-> 0, e |-> 0]

Zero == F(0, 0)

RECURSIVE Norm(_, _)
Norm(m, e) ==
    IF m = 0 THEN Zero
    ELSE IF Abs(m) >= 10000 THEN Norm(RoundDiv(m, 10), e + 1)
    ELSE IF Abs(m) < 1000 THEN Norm(m * 10, e - 1)
    ELSE F(m, e)

FromInt(n) == Norm(n, 0)

\* a coordinate held in units of 1e-4 degree, as a number of degrees
Deg(n) == Norm(n, -4)

FNeg(a) == IF a.nan THEN NaN ELSE F(-a.m, a.e)

FMul(a, b) == IF a.nan \/ b.nan THEN NaN ELSE Norm(a.m * b.m, a.e + b.e)

\* a / b; the program only divides by non-zero values (x / 0 is left as NaN)
FDiv(a, b) ==
    IF a.nan \/ b.nan \/ b.m = 0 THEN NaN
    ELSE Norm(Sgn(a.m) * Sgn(b.m) * ((Abs(a.m) * 100000) \div Abs(b.m)),
              a.e - b.e - 5)

FAdd(a, b) ==
    IF a.nan \/ b.nan THEN NaN
    ELSE IF a.m = 0 THEN b
    ELSE IF b.m = 0 THEN a
    ELSE LET hi == IF a.e >= b.e THEN a ELSE b
             lo == IF a.e >= b.e THEN b ELSE a
             d  == hi.e - lo.e
         IN  IF d > 5 THEN hi ELSE Norm(hi.m * Pow10(d) + lo.m, lo.e)

FSub(a, b) == FAdd(a, FNeg(b))

\* a > b, a < b, a = b; every comparison with NaN is false
FGt(a, b) == ~a.nan /\ ~b.nan /\ FSub(a, b).m > 0

FLt(a, b) == ~a.nan /\ ~b.nan /\ FSub(a, b).m < 0

FEq(a, b) == ~a.nan /\ ~b.nan /\ FSub(a, b).m = 0

\* the largest r in lo..hi with r * r <= n
RECURSIVE ISqrtIter(_, _, _)
ISqrtIter(n, lo, hi) ==
    IF lo >= hi THEN lo
    ELSE LET mid == (lo + hi + 1) \div 2
         IN  IF mid * mid <= n THEN ISqrtIter(n, mid, hi)
             ELSE ISqrtIter(n, lo, mid - 1)

ISqrt(n) == ISqrtIter(n, 0, 40000)

\* Math.sqrt: NaN for a negative argument
FSqrt(a) ==
    IF a.nan \/ a.m < 0 THEN NaN
    ELSE IF a.m = 0 THEN Zero
    ELSE LET odd == (a.e % 2) # 0
             m2  == IF odd THEN a.m * 10 ELSE a.m
             e2  == IF odd THEN a.e - 1 ELSE a.e
         IN  Norm(ISqrt(m2 * 10000), (e2 - 4) \div 2)

\* sum of the series  term, term*(-x2)/((k+1)(k+2)), ...  with k stepping by 2
RECURSIVE TrigSeries(_, _, _, _, _)
TrigSeries(term, x2, k, n, acc) ==
    IF n = 0 \/ term.m = 0 THEN acc
    ELSE LET next == FNeg(FDiv(FMul(term, x2), FromInt((k + 1) * (k + 2))))
         IN  TrigSeries(next, x2, k + 2, n - 1, FAdd(acc, next))

\* Math.sin and Math.cos, by their Taylor series (arguments within -pi..pi)
FSin(x) == IF x.nan THEN NaN ELSE TrigSeries(x, FMul(x, x), 1, 10, x)

FCos(x) == IF x.nan THEN NaN ELSE TrigSeries(F(1000, -3), FMul(x, x), 0, 10, F(1000, -3))

\* sum of  u - u^3/3 + u^5/5 - ...
RECURSIVE AtanSeries(_, _, _, _, _)
AtanSeries(pow, u2, k, n, acc) ==
    IF n = 0 \/ pow.m = 0 THEN acc
    ELSE LET next == FNeg(FMul(pow, u2))
         IN  AtanSeries(next, u2, k + 2, n - 1,
                        FAdd(acc, FDiv(next, FromInt(k + 2))))

PI == F(3142, -3)

HalfPI == F(1571, -3)

\* atan(t) for 0 <= t <= 1, after one halving of the angle
FAtan(t) ==
    LET one == F(1000, -3)
        u   == FDiv(t, FAdd(one, FSqrt(FAdd(one, FMul(t, t)))))
    IN  FMul(F(2000, -3), AtanSeries(u, FMul(u, u), 1, 10, u))

\* Math.atan2(y, x) on the quadrant y >= 0, x >= 0 the program uses
FAtan2(y, x) ==
    IF y.nan \/ x.nan THEN NaN
    ELSE IF y.m = 0 THEN Zero
    ELSE IF x.m = 0 THEN HalfPI
    ELSE IF FGt(y, x) THEN FSub(HalfPI, FAtan(FDiv(x, y)))
    ELSE FAtan(FDiv(y, x))

\* Math.round: the nearest integer, halves toward +infinity
FRound(a) ==
    IF a.e >= 0 THEN a.m * Pow10(a.e)
    ELSE IF a.e < -5 THEN 0
    ELSE (2 * a.m + Pow10(-a.e)) \div (2 * Pow10(-a.e))

\* ------------------------------------------------------------------------
\* src/lib/geo.ts: the geofence evaluator
\* ------------------------------------------------------------------------

toRad(deg) == FDiv(FMul(deg, PI), FromInt(180))

\* the distance with the cosine of the first point's latitude taken twice
haversineDistance_cosOfFirstOnly(a, b) ==
    LET R      == FromInt(6371)
        dLat   == toRad(Deg(b.lat - a.lat))
        dLng   == toRad(Deg(b.lng - a.lng))
        sinLat == FSin(FDiv(dLat, FromInt(2)))
        sinLng == FSin(FDiv(dLng, FromInt(2)))
        h      == FAdd(FMul(sinLat, sinLat),
                       FMul(FMul(FMul(FCos(toRad(Deg(a.lat))),
                                      FCos(toRad(Deg(a.lat)))),
                                 sinLng),
                            sinLng))
    IN  FMul(FMul(R, FromInt(2)),
             FAtan2(FSqrt(h), FSqrt(FSub(FromInt(1), h))))

\* the distance with the cosine of the half latitude difference for its sine
haversineDistance_cosForSin(a, b) ==
    LET R      == FromInt(6371)
        dLat   == toRad(Deg(b.lat - a.lat))
        dLng   == toRad(Deg(b.lng - a.lng))
        sinLat == FCos(FDiv(dLat, FromInt(2)))
        sinLng == FSin(FDiv(dLng, FromInt(2)))
        h      == FAdd(FMul(sinLat, sinLat),
                       FMul(FMul(FMul(FCos(toRad(Deg(a.lat))),
                                      FCos(toRad(Deg(b.lat)))),
                                 sinLng),
                            sinLng))
    IN  FMul(FMul(R, FromInt(2)),
             FAtan2(FSqrt(h), FSqrt(FSub(FromInt(1), h))))

haversineDistance(a, b) ==
    LET R      == FromInt(6371)
        dLat   == toRad(Deg(b.lat - a.lat))
        dLng   == toRad(Deg(b.lng - a.lng))
        sinLat == FSin(FDiv(dLat, FromInt(2)))
        sinLng == FSin(FDiv(dLng, FromInt(2)))
        h      == FAdd(FMul(sinLat, sinLat),
                       FMul(FMul(FMul(FCos(toRad(Deg(a.lat))),
                                      FCos(toRad(Deg(b.lat)))),
                                 sinLng),
                            sinLng))
    IN  FMul(FMul(R, FromInt(2)),
             FAtan2(FSqrt(h), FSqrt(FSub(FromInt(1), h))))


\* ------------------------------------------------------------------------
\* Values
\* ------------------------------------------------------------------------

\* JavaScript null
Null == [null |-> TRUE]

\* a nullable number column of the settings row: <<>> is null, <<n>> is n
None == <<>>

Some(n) == <<n>>

\* JavaScript truthiness of a nullable number: null and 0 are falsy
Truthy(v) == v # None /\ v[1] # 0

GeoPos(lat, lng) == [lat |-> lat, lng |-> lng]

\* ------------------------------------------------------------------------
\* src/lib/geo.ts: the position acquirer
\* ------------------------------------------------------------------------

\* GeolocationPositionError codes
PERMISSION_DENIED == 1

POSITION_UNAVAILABLE == 2

TIMEOUT == 3

\* the codes the platform may report: the three named ones and two others
ErrorCodes == {0, PERMISSION_DENIED, POSITION_UNAVAILABLE, TIMEOUT, 4}

MsgUnsupported == "Geolocation is not supported by your browser."

MsgPermissionDenied ==
    "Location access denied. Please enable location services in your browser settings to check in."

MsgPositionUnavailable == "Location information is unavailable. Please try again."

MsgTimeout == "Location request timed out. Please try again."

MsgUnknown == "An unknown error occurred while getting location."

\* the options of the first request and of the retry
StrictProfile == [enableHighAccuracy |-> TRUE, timeout |-> 15000, maximumAge |-> 0]

RelaxedProfile == [enableHighAccuracy |-> FALSE, timeout |-> 15000, maximumAge |-> 60000]

\* a promise: pending until the first resolve or reject, which settles it
PendingPromise == [state |-> "pending", value |-> Null, reason |-> ""]

resolve(p, v) ==
    IF p.state = "pending" THEN [state |-> "fulfilled", value |-> v, reason |-> ""]
    ELSE p

reject(p, message) ==
    IF p.state = "pending" THEN [state |-> "rejected", value |-> Null, reason |-> message]
    ELSE p

onSuccess(p, coords) == resolve(p, GeoPos(coords.latitude, coords.longitude))

\* onError with every code reported as a timeout
onError_timeoutForAll(p, code) == reject(p, MsgTimeout)

\* onError with no default case: an unrecognised code settles nothing
onError_noDefault(p, code) ==
    CASE code = PERMISSION_DENIED    -> reject(p, MsgPermissionDenied)
      [] code = POSITION_UNAVAILABLE -> reject(p, MsgPositionUnavailable)
      [] code = TIMEOUT              -> reject(p, MsgTimeout)
      [] OTHER                       -> p

onError(p, code) ==
    CASE code = PERMISSION_DENIED    -> reject(p, MsgPermissionDenied)
      [] code = POSITION_UNAVAILABLE -> reject(p, MsgPositionUnavailable)
      [] code = TIMEOUT              -> reject(p, MsgTimeout)
      [] OTHER                       -> reject(p, MsgUnknown)

\* the first error callback without the retry
firstError_noRetry(p, reqs, code) ==
    [promise |-> onError(p, code), requests |-> reqs]

\* the first error callback retrying on every error
firstError_retryAlways(p, reqs, code) ==
    [promise |-> p, requests |-> Append(reqs, RelaxedProfile)]

\* the error callback of the first request: retry on a timeout, else onError
\* (the pair of the promise and the requests issued so far)
firstError(p, reqs, code) ==
    IF code = TIMEOUT
    THEN [promise |-> p, requests |-> Append(reqs, RelaxedProfile)]
    ELSE [promise |-> onError(p, code), requests |-> reqs]

\* getCurrentPosition without the test of navigator.geolocation
getCurrentPosition_noCapabilityTest(hasGeolocation) ==
    [promise |-> PendingPromise, requests |-> <<StrictProfile>>]

\* getCurrentPosition with a first request of another profile
getCurrentPosition_otherProfile(hasGeolocation) ==
    IF ~hasGeolocation
    THEN [promise |-> reject(PendingPromise, MsgUnsupported), requests |-> <<>>]
    ELSE [promise |-> PendingPromise,
          requests |-> <<[enableHighAccuracy |-> TRUE, timeout |-> 10000, maximumAge |-> 0]>>]

\* getCurrentPosition up to its return: the executor of the new promise
getCurrentPosition(hasGeolocation) ==
    IF ~hasGeolocation
    THEN [promise |-> reject(PendingPromise, MsgUnsupported), requests |-> <<>>]
    ELSE [promise |-> PendingPromise, requests |-> <<StrictProfile>>]

\* ------------------------------------------------------------------------
\* src/lib/i18n.ts
\* ------------------------------------------------------------------------

Langs == {"en", "es"}

\* the keys HomePage's handlers use (accents dropped from the Spanish texts)
translations ==
    [l \in Langs |->
        IF l = "en"
        THEN [distError    |-> "You are {dist} away. Must be within {radius} of Smokey's.",
              enterBoth    |-> "Please enter your Staff ID and PIN.",
              noLocation   |-> "Location not available. Please refresh and allow location access.",
              networkError |-> "Network error. Please check your connection and try again."]
        ELSE [distError    |-> "Estas a {dist} de distancia. Debes estar dentro de {radius} de Smokey's.",
              enterBoth    |-> "Por favor ingresa tu ID de empleado y PIN.",
              noLocation   |-> "Ubicacion no disponible. Actualiza la pagina y permite el acceso.",
              networkError |-> "Error de red. Revisa tu conexion e intenta de nuevo."]]

\* a text shown to the user: the string, and the values substituted for its
\* {placeholders} (none for a plain string)
Text(s) == [text |-> s, vars |-> <<>>]

t(l, key) == Text(translations[l][key])

tVars(l, key, vars) == [text |-> translations[l][key], vars |-> vars]

\* Math.floor of a number that is not negative
FFloor(a) ==
    IF a.e >= 0 THEN a.m * Pow10(a.e)
    ELSE IF a.e < -5 THEN 0
    ELSE a.m \div Pow10(-a.e)

\* the formatted distance with its digits cut off instead of rounded
formatDistance_truncates(km, l) ==
    IF FLt(km, FromInt(1))
    THEN [whole |-> FFloor(FMul(km, FromInt(1000))), tenth |-> None, unit |-> "m"]
    ELSE IF km.nan
    THEN [whole |-> 0, tenth |-> None, unit |-> "NaNkm"]
    ELSE LET tenths == FFloor(FMul(km, FromInt(10)))
         IN  [whole |-> tenths \div 10, tenth |-> Some(tenths % 10), unit |-> "km"]

\* the digits of a formatted distance: "<whole>m" or "<whole>.<tenth>km"
formatDistance(km, l) ==
    IF FLt(km, FromInt(1))
    THEN [whole |-> FRound(FMul(km, FromInt(1000))), tenth |-> None, unit |-> "m"]
    ELSE IF km.nan
    THEN [whole |-> 0, tenth |-> None, unit |-> "NaNkm"]
    ELSE LET tenths == FRound(FMul(km, FromInt(10)))
         IN  [whole |-> tenths \div 10, tenth |-> Some(tenths % 10), unit |-> "km"]

\* ------------------------------------------------------------------------
\* src/app/page.tsx: HomePage
\* ------------------------------------------------------------------------

\* the restaurant the settings rows name: 6.2442 N, 75.5812 W
Restaurant == [lat |-> 62442, lng |-> -755812]

\* how many device positions, north of the restaurant, the platform may report
MaxFix == 4

\* the k-th device position: 0 m, 56 m, 100.1 m, 1001 m, 1012 m, 500 m, ...
\* north of the restaurant
FixOffset(k) ==
    CASE k = 0 -> 0
      [] k = 1 -> 5
      [] k = 2 -> 9
      [] k = 3 -> 90
      [] k = 4 -> 91
      [] k = 5 -> 45
      [] OTHER -> 86 + k

DeviceCoords ==
    {[latitude |-> Restaurant.lat + FixOffset(k), longitude |-> Restaurant.lng] : k \in 0..MaxFix}

\* how many clock requests are recorded
MaxFetches == 1

SettingsRow(lat, lng, radius) ==
    [restaurant_lat |-> lat, restaurant_lng |-> lng, radius_meters |-> radius]

\* what the settings query may return: no row (Null), an unconfigured row, the
\* restaurant with the radius unset, 25 m (the least the admin's slider
\* writes) or 1001 m, and a restaurant on the equator
SettingsResults ==
    { Null,
      SettingsRow(None, None, None),
      SettingsRow(Some(Restaurant.lat), Some(Restaurant.lng), None),
      SettingsRow(Some(Restaurant.lat), Some(Restaurant.lng), Some(25)),
      SettingsRow(Some(Restaurant.lat), Some(Restaurant.lng), Some(1001)),
      SettingsRow(Some(0), Some(Restaurant.lng), None) }

\* what the user may type: the staff code field upper-cases its input, the
\* PIN field keeps digits only
StaffCodes == {"", " ", "SMK001"}

Pins == {"", "1234"}

trim(s) == IF s = " " THEN "" ELSE s

\* what the clock endpoint may answer: ok with a ClockResult, not ok with or
\* without an error text, or no answer at all (fetch or res.json() throws)
Responses ==
    { [kind |-> "ok",     error |-> ""],
      [kind |-> "not_ok", error |-> "Invalid staff ID or PIN."],
      [kind |-> "not_ok", error |-> ""],
      [kind |-> "throw",  error |-> ""] }

VARIABLES
    geolocation,   \* navigator.geolocation is present
    requests,      \* the options of the platform requests of the current getCurrentPosition call
    callbacks,     \* the callbacks the platform has made for them, in order
    promise,       \* the promise of the current getCurrentPosition call
    appState, geoError, position, staffCode, pin, error, result,
    distanceKm, radiusKm, lang,   \* the state of HomePage
    rlPc,          \* where requestLocation stands: idle, await_position, await_settings
    rlLang,        \* the lang of the render whose requestLocation is running ("" when none is)
    pos, settings, \* requestLocation's locals
    inFlight,      \* requestLocation calls started and not finished
    hcPc,          \* where handleClock stands: idle, await_fetch
    hcLang,        \* the lang of the render whose handleClock is running ("" when none is)
    fetches,       \* the clock requests sent, each with the appState it was sent from
    evals,         \* haversineDistance calls of the current or most recent requestLocation
    tooFarSeen,    \* some requestLocation of the session has ended out of the geofence
    call,          \* a call of a pure function: its arguments and, once applied, its result
    login,         \* the admin login page: its fields, its handler and the session storage
    dash,          \* the admin dashboard: its session, its staff form and the staff table
    panel,         \* the settings panel: its fields, its handlers and the settings table
    route          \* the resolve-maps-url endpoint: the request handled and its fetches

geoVars == <<geolocation, requests, callbacks, promise>>

formVars == <<staffCode, pin, error, result>>

rlVars == <<rlPc, rlLang, pos, settings, inFlight>>

\* what the staff page never touches: the pure calls and the other pages
offVars == <<call, login, dash, panel, route>>

histVars == <<evals, tooFarSeen, offVars>>

hcVars == <<hcPc, hcLang, fetches>>

vars == <<geolocation, requests, callbacks, promise,
          appState, geoError, position, staffCode, pin, error, result,
          distanceKm, radiusKm, lang,
          rlPc, rlLang, pos, settings, inFlight, hcPc, hcLang, fetches,
          evals, tooFarSeen, call, login, dash, panel, route>>

\* the render with no screen of its own for location_error
Screen_noErrorScreen(state, res) ==
    IF state = "needs_permission" THEN "needs_permission"
    ELSE IF state = "loading" THEN "loading"
    ELSE IF state = "success" /\ res # Null THEN "success"
    ELSE "form"

\* which of the five returns of the render is on screen
Screen(state, res) ==
    IF state = "needs_permission" THEN "needs_permission"
    ELSE IF state = "loading" THEN "loading"
    ELSE IF state = "location_error" THEN "location_error"
    ELSE IF state = "success" /\ res # Null THEN "success"
    ELSE "form"

\* the button on the first screen only: the error screen offers no retry
LocationButton_onlyFirst(screen) == screen = "needs_permission"

\* the loading screen carrying the button as well
LocationButton_whileLoading(screen) ==
    screen \in {"needs_permission", "loading", "location_error"}

\* the screens that carry a button whose onClick is requestLocation
LocationButton(screen) == screen \in {"needs_permission", "location_error"}

\* the form left enabled while a request is being submitted
FormEnabled_noDisable(state, res) == Screen(state, res) = "form"

\* the form's inputs and buttons are enabled
FormEnabled(state, res) == Screen(state, res) = "form" /\ state # "submitting"

\* no pure function is being applied
NoCall == [fn |-> "none"]

\* the page after its first render
PageInit ==
    /\ geolocation \in BOOLEAN
    /\ requests = <<>>
    /\ callbacks = <<>>
    /\ promise = [state |-> "none", value |-> Null, reason |-> ""]
    /\ appState = "needs_permission"
    /\ geoError = Text("")
    /\ position = Null
    /\ staffCode = ""
    /\ pin = ""
    /\ error = Text("")
    /\ result = Null
    /\ distanceKm = Null
    /\ radiusKm = F(1000, -4)
    /\ lang = "es"
    /\ rlPc = "idle"
    /\ rlLang = ""
    /\ pos = Null
    /\ settings = Null
    /\ inFlight = 0
    /\ hcPc = "idle"
    /\ hcLang = ""
    /\ fetches = <<>>
    /\ evals = 0
    /\ tooFarSeen = FALSE

\* a page that is not open, an endpoint that is not called
Closed == [open |-> FALSE]

Init == PageInit /\ call = NoCall /\ login = Closed /\ dash = Closed /\ panel = Closed /\ route = Closed

\* ---- the platform's geolocation service --------------------------------

\* a platform request of the current call awaits its callback
Outstanding == Len(callbacks) < Len(requests)

\* the platform reports a position for the outstanding request
PlatformSuccess(coords) ==
    /\ Outstanding
    /\ callbacks' = Append(callbacks, [ok |-> TRUE, code |-> 0, coords |-> coords])
    /\ promise' = onSuccess(promise, coords)
    /\ UNCHANGED <<geolocation, requests>>
    /\ UNCHANGED <<appState, geoError, position, distanceKm, radiusKm, lang>>
    /\ UNCHANGED <<formVars, rlVars, hcVars>>
    /\ UNCHANGED histVars

\* PlatformError with the retrying callback on the retry as well
PlatformError_retryAgain(code) ==
    /\ Outstanding
    /\ callbacks' = Append(callbacks, [ok |-> FALSE, code |-> code, coords |-> Null])
    /\ promise' = firstError(promise, requests, code).promise
    /\ requests' = firstError(promise, requests, code).requests
    /\ UNCHANGED geolocation
    /\ UNCHANGED <<appState, geoError, position, distanceKm, radiusKm, lang>>
    /\ UNCHANGED <<formVars, rlVars, hcVars>>
    /\ UNCHANGED histVars

\* the platform reports an error for the outstanding request: the first
\* request carries the retrying callback, the retry carries onError
PlatformError(code) ==
    /\ Outstanding
    /\ callbacks' = Append(callbacks, [ok |-> FALSE, code |-> code, coords |-> Null])
    /\ IF Len(requests) = 1
       THEN /\ promise' = firstError(promise, requests, code).promise
            /\ requests' = firstError(promise, requests, code).requests
       ELSE /\ promise' = onError(promise, code)
            /\ requests' = requests
    /\ UNCHANGED geolocation
    /\ UNCHANGED <<appState, geoError, position, distanceKm, radiusKm, lang>>
    /\ UNCHANGED <<formVars, rlVars, hcVars>>
    /\ UNCHANGED histVars

\* ---- requestLocation ----------------------------------------------------

\* the tap on ENABLE LOCATION or TRY AGAIN: requestLocation up to its first await
RequestLocation ==
    /\ LocationButton(Screen(appState, result))
    /\ appState' = "loading"
    /\ geoError' = Text("")
    /\ promise' = getCurrentPosition(geolocation).promise
    /\ requests' = getCurrentPosition(geolocation).requests
    /\ callbacks' = <<>>
    /\ rlPc' = "await_position"
    /\ rlLang' = lang
    /\ inFlight' = inFlight + 1
    /\ evals' = 0
    /\ UNCHANGED <<geolocation, position, distanceKm, radiusKm, lang, pos, settings>>
    /\ UNCHANGED <<formVars, hcVars, tooFarSeen, offVars>>

\* ResumeWithPosition with the catch showing its fallback text for every error
ResumeWithPosition_genericMessage ==
    /\ rlPc = "await_position"
    /\ promise.state \in {"fulfilled", "rejected"}
    /\ IF promise.state = "fulfilled"
       THEN /\ pos' = promise.value
            /\ position' = promise.value
            /\ rlPc' = "await_settings"
            /\ UNCHANGED <<appState, geoError, inFlight, rlLang>>
       ELSE /\ geoError' = Text("Failed to get location")
            /\ appState' = "location_error"
            /\ rlPc' = "idle"
            /\ rlLang' = ""
            /\ inFlight' = inFlight - 1
            /\ UNCHANGED <<pos, position>>
    /\ UNCHANGED <<geoVars, formVars, hcVars>>
    /\ UNCHANGED <<distanceKm, radiusKm, lang, settings>>
    /\ UNCHANGED histVars

\* requestLocation resumes after await getCurrentPosition(): on with the
\* position, or into the catch with the error
ResumeWithPosition ==
    /\ rlPc = "await_position"
    /\ promise.state \in {"fulfilled", "rejected"}
    /\ IF promise.state = "fulfilled"
       THEN /\ pos' = promise.value
            /\ position' = promise.value
            /\ rlPc' = "await_settings"
            /\ UNCHANGED <<appState, geoError, inFlight, rlLang>>
       ELSE /\ geoError' = Text(promise.reason)
            /\ appState' = "location_error"
            /\ rlPc' = "idle"
            /\ rlLang' = ""
            /\ inFlight' = inFlight - 1
            /\ UNCHANGED <<pos, position>>
    /\ UNCHANGED <<geoVars, formVars, hcVars>>
    /\ UNCHANGED <<distanceKm, radiusKm, lang, settings>>
    /\ UNCHANGED histVars

\* the geofence is evaluated for this settings result
Configured(s) == s # Null /\ Truthy(s.restaurant_lat) /\ Truthy(s.restaurant_lng)

\* the radius with no fallback for an unset radius_meters
RadiusOf_noDefault(s) ==
    FDiv(FromInt(IF Truthy(s.radius_meters) THEN s.radius_meters[1] ELSE 0),
         FromInt(1000))

\* (settings.radius_meters || 100) / 1000
RadiusOf(s) ==
    FDiv(FromInt(IF Truthy(s.radius_meters) THEN s.radius_meters[1] ELSE 100),
         FromInt(1000))

RestaurantOf(s) == GeoPos(s.restaurant_lat[1], s.restaurant_lng[1])

\* the verdict with an unconfigured installation blocked
Verdict_unconfiguredBlocked(s, p) ==
    IF Configured(s)
    THEN (IF FGt(haversineDistance(p, RestaurantOf(s)), RadiusOf(s))
          THEN "location_error" ELSE "ready")
    ELSE "location_error"

\* the appState requestLocation ends in, for position p and settings s
Verdict(s, p) ==
    IF Configured(s) /\ FGt(haversineDistance(p, RestaurantOf(s)), RadiusOf(s))
    THEN "location_error"
    ELSE "ready"

\* requestLocation resumes after the settings query: the geofence decision
ResumeWithSettings(s) ==
    /\ rlPc = "await_settings"
    /\ settings' = s
    /\ IF Configured(s)
       THEN LET rKm  == RadiusOf(s)
                dist == haversineDistance(pos, RestaurantOf(s))
            IN  /\ radiusKm' = rKm
                /\ distanceKm' = dist
                /\ appState' = Verdict(s, pos)
                /\ geoError' = IF Verdict(s, pos) = "location_error"
                               THEN tVars(rlLang, "distError",
                                          [dist   |-> formatDistance(dist, rlLang),
                                           radius |-> formatDistance(rKm, rlLang)])
                               ELSE geoError
       ELSE /\ appState' = Verdict(s, pos)
            /\ UNCHANGED <<radiusKm, distanceKm, geoError>>
    /\ rlPc' = "idle"
    /\ rlLang' = ""
    /\ inFlight' = inFlight - 1
    /\ evals' = IF Configured(s) THEN evals + 1 ELSE evals
    /\ tooFarSeen' = (tooFarSeen \/ Verdict(s, pos) = "location_error")
    /\ UNCHANGED <<geoVars, formVars, hcVars>>
    /\ UNCHANGED <<position, lang, pos, offVars>>

\* ---- the form -------------------------------------------------------------

SetStaffCode(v) ==
    /\ FormEnabled(appState, result)
    /\ staffCode' = v
    /\ UNCHANGED <<geoVars, rlVars, hcVars>>
    /\ UNCHANGED histVars
    /\ UNCHANGED <<appState, geoError, position, pin, error, result, distanceKm, radiusKm, lang>>

SetPin(v) ==
    /\ FormEnabled(appState, result)
    /\ pin' = v
    /\ UNCHANGED <<geoVars, rlVars, hcVars>>
    /\ UNCHANGED histVars
    /\ UNCHANGED <<appState, geoError, position, staffCode, error, result, distanceKm, radiusKm, lang>>

\* handleClock without its two early returns
HandleClock_noValidation(action) ==
    /\ FormEnabled(appState, result)
    /\ position # Null
    /\ Len(fetches) < MaxFetches
    /\ error' = Text("")
    /\ appState' = "submitting"
    /\ fetches' = Append(fetches,
                         [from       |-> appState,
                          staff_code |-> trim(staffCode),
                          pin        |-> trim(pin),
                          action     |-> action,
                          gps_lat    |-> position.lat,
                          gps_lng    |-> position.lng])
    /\ hcPc' = "await_fetch"
    /\ hcLang' = lang
    /\ UNCHANGED <<geoVars, rlVars>>
    /\ UNCHANGED histVars
    /\ UNCHANGED <<geoError, position, staffCode, pin, result, distanceKm, radiusKm, lang>>

\* the tap on CHECK IN or CHECK OUT: handleClock up to its fetch
HandleClock(action) ==
    /\ FormEnabled(appState, result)
    /\ IF trim(staffCode) = "" \/ trim(pin) = ""
       THEN /\ error' = t(lang, "enterBoth")
            /\ UNCHANGED <<appState, hcVars>>
       ELSE IF position = Null
       THEN /\ error' = t(lang, "noLocation")
            /\ UNCHANGED <<appState, hcVars>>
       ELSE /\ Len(fetches) < MaxFetches
            /\ error' = Text("")
            /\ appState' = "submitting"
            /\ fetches' = Append(fetches,
                                 [from       |-> appState,
                                  staff_code |-> trim(staffCode),
                                  pin        |-> trim(pin),
                                  action     |-> action,
                                  gps_lat    |-> position.lat,
                                  gps_lng    |-> position.lng])
            /\ hcPc' = "await_fetch"
            /\ hcLang' = lang
    /\ UNCHANGED <<geoVars, rlVars>>
    /\ UNCHANGED histVars
    /\ UNCHANGED <<geoError, position, staffCode, pin, result, distanceKm, radiusKm, lang>>

\* handleClock resumes with the endpoint's answer
ClockSettles(r) ==
    /\ hcPc = "await_fetch"
    /\ hcPc' = "idle"
    /\ hcLang' = ""
    /\ CASE r.kind = "ok" ->
              /\ result' = [action |-> fetches[Len(fetches)].action]
              /\ appState' = "success"
              /\ error' = error
         [] r.kind = "not_ok" ->
              /\ error' = Text(IF r.error # "" THEN r.error ELSE "Something went wrong.")
              /\ appState' = "ready"
              /\ result' = result
         [] OTHER ->
              /\ error' = t(hcLang, "networkError")
              /\ appState' = "ready"
              /\ result' = result
    /\ UNCHANGED <<geoVars, rlVars>>
    /\ UNCHANGED histVars
    /\ UNCHANGED <<geoError, position, staffCode, pin, distanceKm, radiusKm, lang, fetches>>

\* handleReset dropping the stored position as well
HandleReset_clearsPosition ==
    /\ Screen(appState, result) = "success"
    /\ staffCode' = ""
    /\ pin' = ""
    /\ error' = Text("")
    /\ result' = Null
    /\ appState' = "ready"
    /\ position' = Null
    /\ UNCHANGED <<geoVars, rlVars, hcVars>>
    /\ UNCHANGED histVars
    /\ UNCHANGED <<geoError, distanceKm, radiusKm, lang>>

\* the tap on Done
HandleReset ==
    /\ Screen(appState, result) = "success"
    /\ staffCode' = ""
    /\ pin' = ""
    /\ error' = Text("")
    /\ result' = Null
    /\ appState' = "ready"
    /\ UNCHANGED <<geoVars, rlVars, hcVars>>
    /\ UNCHANGED histVars
    /\ UNCHANGED <<geoError, position, distanceKm, radiusKm, lang>>

\* the language button, on every screen
ToggleLang ==
    /\ lang' = IF lang = "en" THEN "es" ELSE "en"
    /\ UNCHANGED <<geoVars, formVars, rlVars, hcVars>>
    /\ UNCHANGED histVars
    /\ UNCHANGED <<appState, geoError, position, distanceKm, radiusKm>>

Next ==
    \/ \E c \in DeviceCoords : PlatformSuccess(c)
    \/ \E code \in ErrorCodes : PlatformError(code)
    \/ RequestLocation
    \/ ResumeWithPosition
    \/ \E s \in SettingsResults : ResumeWithSettings(s)
    \/ \E v \in StaffCodes : SetStaffCode(v)
    \/ \E v \in Pins : SetPin(v)
    \/ \E a \in {"check_in", "check_out"} : HandleClock(a)
    \/ \E r \in Responses : ClockSettles(r)
    \/ HandleReset
    \/ ToggleLang

Spec == Init /\ [][Next]_vars

\* ------------------------------------------------------------------------
\* The pure functions on their own: haversineDistance and formatDistance
\* applied to arguments drawn from bounded sets
\* ------------------------------------------------------------------------

\* the places a coordinate pair is drawn from: the restaurant, 100 m north
\* and 100 m east of it, New York, the origin, Sydney, and two pairs that no
\* place on earth has (latitude 91, longitude 181)
Places ==
    {GeoPos(Restaurant.lat, Restaurant.lng),
     GeoPos(Restaurant.lat + 9, Restaurant.lng),
     GeoPos(Restaurant.lat, Restaurant.lng + 9),
     GeoPos(407128, -740060),
     GeoPos(0, 0),
     GeoPos(-338688, 1512093),
     GeoPos(910000, 0),
     GeoPos(0, 1810000)}

\* the distances formatDistance is applied to: 0 and, for every power of ten
\* from 1e-7 to 1, seven mantissas with and without a half to round
KmValues ==
    {Zero} \cup {F(m, e) : m \in {1000, 1234, 2350, 4995, 5000, 9995, 9999},
                           e \in -7..0}

\* a call that has not returned
NoResult ==
    [threw |-> FALSE, number |-> Zero, digits |-> [whole |-> 0, tenth |-> None, unit |-> ""]]

HaversineCalls ==
    {[fn |-> "haversineDistance", a |-> p, b |-> q, km |-> Zero, l |-> "en",
      done |-> FALSE, out |-> NoResult] : p \in Places, q \in Places}

FormatCalls ==
    {[fn |-> "formatDistance", a |-> GeoPos(0, 0), b |-> GeoPos(0, 0), km |-> k, l |-> l,
      done |-> FALSE, out |-> NoResult] : k \in KmValues, l \in Langs}

pageVars == <<geoVars, formVars, rlVars, hcVars,
              appState, geoError, position, distanceKm, radiusKm, lang,
              evals, tooFarSeen>>

InitFn ==
    /\ PageInit
    /\ call \in HaversineCalls \cup FormatCalls
    /\ login = Closed /\ dash = Closed /\ panel = Closed /\ route = Closed

\* haversineDistance(a, b) runs to its return: it has no throw
CallHaversine ==
    /\ call.fn = "haversineDistance"
    /\ ~call.done
    /\ call' = [call EXCEPT !.done = TRUE,
                            !.out = [NoResult EXCEPT
                                       !.number = haversineDistance(call.a, call.b)]]
    /\ UNCHANGED <<pageVars, login, dash, panel, route>>

\* formatDistance(km, lang) runs to its return
CallFormat ==
    /\ call.fn = "formatDistance"
    /\ ~call.done
    /\ call' = [call EXCEPT !.done = TRUE,
                            !.out = [NoResult EXCEPT
                                       !.digits = formatDistance(call.km, call.l)]]
    /\ UNCHANGED <<pageVars, login, dash, panel, route>>

NextFn == CallHaversine \/ CallFormat

SpecFn == InitFn /\ [][NextFn]_vars

\* ------------------------------------------------------------------------
\* src/unnamed/part_003: AdminLoginPage
\* ------------------------------------------------------------------------

\* the rows of the staff table: an active admin, an active staff member and
\* a deactivated admin
StaffTable ==
    {[id |-> "u1", staff_code |-> "ADMIN01", name |-> "Ana", role |-> "admin",
      active |-> TRUE, pin |-> "1234"],
     [id |-> "u2", staff_code |-> "STAFF01", name |-> "Beto", role |-> "staff",
      active |-> TRUE, pin |-> "1234"],
     [id |-> "u3", staff_code |-> "ADMIN02", name |-> "Caro", role |-> "admin",
      active |-> FALSE, pin |-> "1234"]}

\* what may be typed into the Admin ID field
LoginCodeKeys == {"", " ", "admin01", "STAFF01", "admin02", "nobody"}

\* String.prototype.toUpperCase on the values typed
toUpperCase(s) ==
    CASE s = "admin01" -> "ADMIN01"
      [] s = "admin02" -> "ADMIN02"
      [] s = "nobody"  -> "NOBODY"
      [] OTHER         -> s

\* String.prototype.trim on the values of the login fields
loginTrim(s) == IF s = " " THEN "" ELSE s

\* what may be typed into the PIN field
LoginPinKeys == {"", "1234", "12a4"}

\* value.replace(/\D/g, '').slice(0, 6) on the values typed
DigitsOnly(s) == IF s = "12a4" THEN "124" ELSE s

\* the moments new Date() may read while the login page is open
LoginTimes == {0, 1}

LoginInit ==
    /\ PageInit
    /\ call = NoCall /\ dash = Closed /\ panel = Closed /\ route = Closed
    /\ \E now \in LoginTimes :
         login = [open |-> TRUE, staffCode |-> "", pin |-> "", error |-> "",
                  loading |-> FALSE, pc |-> "idle", query |-> Null, staff |-> Null,
                  rpc |-> Null, session |-> Null, path |-> "/admin", now |-> now]

\* the rest of the state, which the login page leaves alone
notLogin == <<pageVars, call, dash, panel, route>>

LoginSetStaffCode(v) ==
    /\ login.open /\ login.path = "/admin" /\ ~login.loading
    /\ login' = [login EXCEPT !.staffCode = toUpperCase(v)]
    /\ UNCHANGED notLogin

LoginSetPin(v) ==
    /\ login.open /\ login.path = "/admin" /\ ~login.loading
    /\ login' = [login EXCEPT !.pin = DigitsOnly(v)]
    /\ UNCHANGED notLogin

\* the submit of the form: handleLogin up to its first await
HandleLogin ==
    /\ login.open /\ login.path = "/admin" /\ ~login.loading
    /\ IF loginTrim(login.staffCode) = "" \/ loginTrim(login.pin) = ""
       THEN login' = [login EXCEPT !.error = "Please enter your Admin ID and PIN."]
       ELSE login' = [login EXCEPT
                        !.loading = TRUE,
                        !.error = "",
                        !.pc = "await_lookup",
                        !.query = [table      |-> "staff",
                                   staff_code |-> toUpperCase(loginTrim(login.staffCode)),
                                   role       |-> "admin",
                                   active     |-> TRUE]]
    /\ UNCHANGED notLogin

\* .single() on the rows the filters of query q select
Single(q) ==
    LET rows == {r \in StaffTable : /\ r.staff_code = q.staff_code
                                    /\ r.role = q.role
                                    /\ r.active = q.active}
    IN  IF Cardinality(rows) = 1
        THEN [kind |-> "data", data |-> CHOOSE r \in rows : TRUE]
        ELSE [kind |-> "error", data |-> Null]

\* how the lookup may end: with the answer of the table, with an error, with
\* neither error nor row, or with an exception
LookupOutcomes(q) ==
    {Single(q), [kind |-> "error", data |-> Null], [kind |-> "data", data |-> Null],
     [kind |-> "throw", data |-> Null]}

\* every result a lookup may have
LookupResults ==
    {[kind |-> "data", data |-> row] : row \in StaffTable}
        \cup {[kind |-> k, data |-> Null] : k \in {"data", "error", "throw"}}

\* handleLogin resumes with the result of the staff lookup
LoginLookupSettles(r) ==
    /\ login.open /\ login.pc = "await_lookup"
    /\ r \in LookupOutcomes(login.query)
    /\ login' =
         IF r.kind = "throw"
         THEN [login EXCEPT !.error = "Network error. Please try again.",
                            !.loading = FALSE, !.pc = "idle"]
         ELSE IF r.kind = "error" \/ r.data = Null
         THEN [login EXCEPT !.error = "Invalid Admin ID or insufficient permissions.",
                            !.loading = FALSE, !.pc = "idle"]
         ELSE [login EXCEPT !.staff = r.data,
                            !.pc = "await_pin",
                            !.rpc = [fn |-> "verify_pin", p_staff_id |-> r.data.id,
                                     p_pin |-> loginTrim(login.pin)]]
    /\ UNCHANGED notLogin

\* how verify_pin may end: with the comparison of the PINs, with no data
\* (the call failed), or with an exception
PinOutcomes(c) ==
    {[kind |-> "data",
      data |-> Some(\E r \in StaffTable : r.id = c.p_staff_id /\ r.pin = c.p_pin)],
     [kind |-> "data", data |-> None],
     [kind |-> "throw", data |-> None]}

\* every result verify_pin may have
PinResults ==
    {[kind |-> "data", data |-> d] : d \in {Some(TRUE), Some(FALSE), None}}
        \cup {[kind |-> "throw", data |-> None]}

\* handleLogin resuming after verify_pin with the PIN never looked at
LoginPinSettles_anyPin(r) ==
    /\ login.open /\ login.pc = "await_pin"
    /\ r \in PinOutcomes(login.rpc)
    /\ login' =
         IF r.kind = "throw"
         THEN [login EXCEPT !.error = "Network error. Please try again.",
                            !.loading = FALSE, !.pc = "idle"]
         ELSE [login EXCEPT !.session = [id         |-> login.staff.id,
                                         name       |-> login.staff.name,
                                         staff_code |-> login.staff.staff_code,
                                         loginAt    |-> login.now],
                            !.path = "/admin/dashboard",
                            !.loading = FALSE, !.pc = "idle"]
    /\ UNCHANGED notLogin

\* handleLogin resumes with the result of verify_pin
LoginPinSettles(r) ==
    /\ login.open /\ login.pc = "await_pin"
    /\ r \in PinOutcomes(login.rpc)
    /\ login' =
         IF r.kind = "throw"
         THEN [login EXCEPT !.error = "Network error. Please try again.",
                            !.loading = FALSE, !.pc = "idle"]
         ELSE IF r.data = None \/ r.data = Some(FALSE)
         THEN [login EXCEPT !.error = "Invalid PIN.",
                            !.loading = FALSE, !.pc = "idle"]
         ELSE [login EXCEPT !.session = [id         |-> login.staff.id,
                                         name       |-> login.staff.name,
                                         staff_code |-> login.staff.staff_code,
                                         loginAt    |-> login.now],
                            !.path = "/admin/dashboard",
                            !.loading = FALSE, !.pc = "idle"]
    /\ UNCHANGED notLogin

LoginNext ==
    \/ \E v \in LoginCodeKeys : LoginSetStaffCode(v)
    \/ \E v \in LoginPinKeys : LoginSetPin(v)
    \/ HandleLogin
    \/ \E r \in LookupResults : LoginLookupSettles(r)
    \/ \E r \in PinResults : LoginPinSettles(r)

SpecLogin == LoginInit /\ [][LoginNext]_vars

\* ------------------------------------------------------------------------
\* src/unnamed/part_004: AdminDashboard
\* ------------------------------------------------------------------------

\* the latest hour the clock of the dashboard reaches
MaxClock == 3

\* 2 * 60 * 60 * 1000 ms, in hours
SessionHours == 2

\* the staff row shown in the table
StaffRow == [id |-> "u2", staff_code |-> "SMK001", name |-> "Beto", role |-> "staff",
             pin |-> "1234", active |-> TRUE]

EmptyStaffForm == [name |-> "", staff_code |-> "", pin |-> "", role |-> "staff"]

\* what may be entered into the fields of the staff form
StaffFormKeys ==
    [name       |-> {"Beta"},
     staff_code |-> {"smk002"},
     pin        |-> {"9999"},
     role       |-> {"admin"}]

\* the onChange of a field of the staff form
StaffFormValue(field, v) ==
    IF field = "staff_code" THEN (IF v = "smk002" THEN "SMK002" ELSE v)
    ELSE IF field = "pin" THEN DigitsOnly(v)
    ELSE v

\* the dashboard is opened at some hour, with no session stored or with the
\* one written by a login at hour 0
DashInit ==
    /\ PageInit
    /\ call = NoCall /\ login = Closed /\ panel = Closed /\ route = Closed
    /\ \E now \in 0..MaxClock :
       \E session \in {Null, [id |-> "u1", name |-> "Ana", staff_code |-> "ADMIN01",
                              loginAt |-> 0]} :
         dash = [open |-> TRUE, path |-> "/admin/dashboard", now |-> now,
                 session |-> session, mounted |-> FALSE, admin |-> Null, loading |-> TRUE,
                 showStaffForm |-> FALSE, editingStaff |-> Null,
                 staffForm |-> EmptyStaffForm, staffFormError |-> "",
                 staffFormLoading |-> FALSE, pc |-> "idle", sub |-> Null,
                 db |-> StaffRow, before |-> StaffRow, created |-> FALSE, opAge |-> -1]

\* the rest of the state, which the dashboard leaves alone
notDash == <<pageVars, call, login, panel, route>>

\* an hour passes
DashTick ==
    /\ dash.open /\ dash.now < MaxClock
    /\ dash' = [dash EXCEPT !.now = dash.now + 1]
    /\ UNCHANGED notDash

\* the effect run once after the first render: the session check
DashMount ==
    /\ dash.open /\ ~dash.mounted
    /\ dash' =
         IF dash.session = Null
         THEN [dash EXCEPT !.mounted = TRUE, !.path = "/admin"]
         ELSE IF dash.now - dash.session.loginAt > SessionHours
         THEN [dash EXCEPT !.mounted = TRUE, !.session = Null, !.path = "/admin"]
         ELSE [dash EXCEPT !.mounted = TRUE, !.admin = dash.session, !.loading = FALSE]
    /\ UNCHANGED notDash

\* the dashboard is rendered, not its Loading... screen, and is the page shown
DashShown == dash.open /\ dash.path = "/admin/dashboard" /\ ~dash.loading

\* the header and the staff table can be clicked: the form's overlay is not
\* over them
DashClickable == DashShown /\ ~dash.showStaffForm

\* the age of the session the dashboard runs with, in hours
SessionAge == dash.now - dash.admin.loginAt

\* the greatest session age any operation on the database has been made at
\* (-1 before the first), after one more is made now
OpAgeNow == IF SessionAge > dash.opAge THEN SessionAge ELSE dash.opAge

HandleLogout ==
    /\ DashClickable
    /\ dash' = [dash EXCEPT !.session = Null, !.path = "/admin"]
    /\ UNCHANGED notDash

\* + Add Staff
DashAddStaff ==
    /\ DashClickable
    /\ dash' = [dash EXCEPT !.editingStaff = Null, !.staffForm = EmptyStaffForm,
                            !.showStaffForm = TRUE]
    /\ UNCHANGED notDash

\* Edit on the row of the table
editStaff ==
    /\ DashClickable
    /\ dash' = [dash EXCEPT
                  !.editingStaff = [id |-> dash.db.id],
                  !.staffForm = [name |-> dash.db.name, staff_code |-> dash.db.staff_code,
                                 pin |-> "", role |-> dash.db.role],
                  !.showStaffForm = TRUE]
    /\ UNCHANGED notDash

\* Activate / Deactivate on the row of the table
toggleStaffActive ==
    /\ DashClickable
    /\ dash' = [dash EXCEPT !.db.active = ~dash.db.active,
                            !.opAge = OpAgeNow]
    /\ UNCHANGED notDash

\* typing into a field of the staff form (the code is locked while editing)
DashSetField(field, v) ==
    /\ DashShown /\ dash.showStaffForm
    /\ field = "staff_code" => dash.editingStaff = Null
    /\ dash' = [dash EXCEPT !.staffForm[field] = StaffFormValue(field, v)]
    /\ UNCHANGED notDash

\* Cancel on the staff form
DashCancel ==
    /\ DashShown /\ dash.showStaffForm
    /\ dash' = [dash EXCEPT !.showStaffForm = FALSE]
    /\ UNCHANGED notDash

\* the browser lets the form be submitted: the required fields are filled
StaffFormValid ==
    /\ dash.staffForm.name # ""
    /\ dash.staffForm.staff_code # ""
    /\ dash.editingStaff = Null => dash.staffForm.pin # ""

\* the submit of the staff form: handleStaffSubmit up to its first await
HandleStaffSubmit ==
    /\ DashShown /\ dash.showStaffForm /\ ~dash.staffFormLoading /\ dash.pc = "idle"
    /\ StaffFormValid
    /\ dash' = [dash EXCEPT
                  !.staffFormError = "",
                  !.staffFormLoading = TRUE,
                  !.sub = [editing |-> dash.editingStaff # Null, form |-> dash.staffForm],
                  !.before = dash.db,
                  !.pc = IF dash.editingStaff = Null THEN "await_create"
                         ELSE IF dash.staffForm.pin # "" THEN "await_pin"
                         ELSE "await_update"]
    /\ UNCHANGED notDash

\* how a call to the database may end
DbOutcomes == {"ok", "error", "throw"}

\* handleStaffSubmit ends in its catch
StaffSubmitThrows ==
    [dash EXCEPT !.staffFormError = "An error occurred.",
                 !.staffFormLoading = FALSE, !.pc = "idle", !.sub = Null]

\* handleStaffSubmit ends with the form closed and emptied
StaffSubmitDone(d) ==
    [d EXCEPT !.showStaffForm = FALSE, !.editingStaff = Null,
              !.staffForm = EmptyStaffForm, !.staffFormLoading = FALSE, !.pc = "idle",
              !.sub = Null]

\* handleStaffSubmit resumes after update_staff_pin
StaffPinSettles(r) ==
    /\ dash.open /\ dash.pc = "await_pin"
    /\ dash' =
         CASE r = "ok" ->
                [dash EXCEPT !.db.pin = dash.sub.form.pin,
                             !.opAge = OpAgeNow,
                             !.pc = "await_update"]
           [] r = "error" ->
                [dash EXCEPT !.staffFormError = "Failed to update PIN.",
                             !.staffFormLoading = FALSE, !.pc = "idle", !.sub = Null]
           [] OTHER -> StaffSubmitThrows
    /\ UNCHANGED notDash

\* handleStaffSubmit resumes after the update of the staff row
StaffUpdateSettles(r) ==
    /\ dash.open /\ dash.pc = "await_update"
    /\ dash' =
         CASE r = "ok" ->
                StaffSubmitDone(
                  [dash EXCEPT !.db.name = dash.sub.form.name,
                               !.db.staff_code = dash.sub.form.staff_code,
                               !.db.role = dash.sub.form.role,
                               !.opAge = OpAgeNow])
           [] r = "error" ->
                [dash EXCEPT !.staffFormError = "update failed",
                             !.staffFormLoading = FALSE, !.pc = "idle", !.sub = Null]
           [] OTHER -> StaffSubmitThrows
    /\ UNCHANGED notDash

\* handleStaffSubmit resumes after create_staff
StaffCreateSettles(r) ==
    /\ dash.open /\ dash.pc = "await_create"
    /\ dash' =
         CASE r = "ok" ->
                StaffSubmitDone(
                  [dash EXCEPT !.created = TRUE,
                               !.opAge = OpAgeNow])
           [] r = "error" ->
                [dash EXCEPT !.staffFormError = "create failed",
                             !.staffFormLoading = FALSE, !.pc = "idle", !.sub = Null]
           [] OTHER -> StaffSubmitThrows
    /\ UNCHANGED notDash

DashNext ==
    \/ DashTick
    \/ DashMount
    \/ HandleLogout
    \/ DashAddStaff
    \/ editStaff
    \/ toggleStaffActive
    \/ \E f \in DOMAIN StaffFormKeys : \E v \in StaffFormKeys[f] : DashSetField(f, v)
    \/ DashCancel
    \/ HandleStaffSubmit
    \/ \E r \in DbOutcomes : StaffPinSettles(r)
    \/ \E r \in DbOutcomes : StaffUpdateSettles(r)
    \/ \E r \in DbOutcomes : StaffCreateSettles(r)

SpecDash == DashInit /\ [][DashNext]_vars

\* ------------------------------------------------------------------------
\* src/app/api/resolve-maps-url/route.ts: POST
\* ------------------------------------------------------------------------

\* how many requests the endpoint handles
MaxPosts == 2

\* a string as the sequence of its pieces; s.includes(pat) is then the search
\* for pat as a run of consecutive pieces
includes(s, pat) ==
    \E i \in 1..(Len(s) - Len(pat) + 1) : SubSeq(s, i, i + Len(pat) - 1) = pat

\* the strings sent as url: two shortened Google Maps links, a full Google
\* Maps URL, a goo.gl link that is no maps link, two URLs of other hosts that
\* carry the name of a shortener in their query or path, and the empty string
UrlStrings ==
    {<<"https://", "maps.app.goo.gl", "/", "AbC12">>,
     <<"https://", "goo.gl", "/maps", "/", "AbC12">>,
     <<"https://", "www.google.com", "/maps", "/@6.2442,-75.5812,17z">>,
     <<"https://", "goo.gl", "/", "AbC12">>,
     <<"http://", "169.254.169.254", "/", "latest", "?x=", "maps.app.goo.gl">>,
     <<"https://", "evil.example", "/", "goo.gl", "/maps">>,
     <<>>}

\* the JSON bodies sent: no JSON at all, null, an object without url, with a
\* number as url, and with each of the strings
RouteBodies ==
    {[json |-> "invalid", url |-> [type |-> "undefined", s |-> <<>>]],
     [json |-> "null",    url |-> [type |-> "undefined", s |-> <<>>]],
     [json |-> "object",  url |-> [type |-> "undefined", s |-> <<>>]],
     [json |-> "object",  url |-> [type |-> "number", s |-> <<>>]]}
        \cup {[json |-> "object", url |-> [type |-> "string", s |-> u]] : u \in UrlStrings}

\* how the outbound fetch may end: at a Google Maps page, or with an exception
RouteFetchOutcomes ==
    {[ok |-> TRUE,  url |-> <<"https://", "www.google.com", "/maps", "/@6.2442,-75.5812,17z">>],
     [ok |-> FALSE, url |-> <<>>]}

RouteInit ==
    /\ PageInit
    /\ call = NoCall /\ login = Closed /\ dash = Closed /\ panel = Closed
    /\ route = [open |-> TRUE, pc |-> "idle", body |-> Null, fetched |-> <<>>, log |-> <<>>]

\* the rest of the state, which the endpoint leaves alone
notRoute == <<pageVars, call, login, dash, panel>>

\* the answer NextResponse.json(...) with a status, to the request with body b
RouteAnswer(b, status, text) ==
    [route EXCEPT !.pc = "idle",
                  !.body = b,
                  !.log = Append(route.log,
                                 [body |-> b, status |-> status, text |-> text,
                                  fetches |-> Len(route.fetched)])]

\* the answer to the request with body b, or its fetch
RouteReceived(b) ==
    IF b.json # "object"
    THEN RouteAnswer(b, 500, <<"Failed to resolve URL">>)
    ELSE IF b.url.type = "undefined" \/ b.url.s = <<>> \/ b.url.type # "string"
    THEN RouteAnswer(b, 400, <<"Missing url">>)
    ELSE IF ~includes(b.url.s, <<"maps.app.goo.gl">>) /\ ~includes(b.url.s, <<"goo.gl", "/maps">>)
    THEN RouteAnswer(b, 400, <<"Not a shortened Google Maps URL">>)
    ELSE [route EXCEPT !.body = b, !.pc = "fetching",
                       !.fetched = Append(route.fetched, b.url.s)]

\* a request arrives: POST up to its answer or to its fetch
RoutePost(b) ==
    /\ route.open /\ route.pc = "idle"
    /\ Len(route.log) < MaxPosts
    /\ route' = RouteReceived(b)
    /\ UNCHANGED notRoute

\* POST resumes after the fetch
RouteFetchSettles(r) ==
    /\ route.open /\ route.pc = "fetching"
    /\ route' = IF r.ok
                THEN RouteAnswer(route.body, 200, r.url)
                ELSE RouteAnswer(route.body, 500, <<"Failed to resolve URL">>)
    /\ UNCHANGED notRoute

RouteNext ==
    \/ \E b \in RouteBodies : RoutePost(b)
    \/ \E r \in RouteFetchOutcomes : RouteFetchSettles(r)

SpecRoute == RouteInit /\ [][RouteNext]_vars

\* ------------------------------------------------------------------------
\* The admin's settings panel (SettingsPanel)
\* ------------------------------------------------------------------------

MaxRows == 1

MaxTimers == 1

\* the tokens that match -?\d+\.\d+
Decimals == {"40.7128", "-74.0060", "90.0", "180.0", "90.0001", "-180.0001", "0.0"}

\* parseFloat of such a token, in 1e-4 degree
parseFloat(s) ==
    CASE s = "40.7128"   -> 407128
      [] s = "-74.0060"  -> -740060
      [] s = "90.0"      -> 900000
      [] s = "180.0"     -> 1800000
      [] s = "90.0001"   -> 900001
      [] s = "-180.0001" -> -1800001
      [] s = "0.0"       -> 0

\* what the admin may type in the link field, as token sequences: raw
\* coordinates (with white space, out of range, without decimals), full links
\* (out of range, on the bounds) and a shortened link
MapsLinks ==
    { <<" ", "40.7128", ",", " ", "-74.0060", " ">>,
      <<"0.0", ",", "-180.0001">>,
      <<"40", ",", "-74">>,
      <<"https://", "www.google.com", "/maps", "/", "@", "90.0001", ",", "0.0", ",", "17z">>,
      <<"https://", "www.google.com", "/maps", "/place/", "90.0", ",", "180.0">>,
      <<"https://", "maps.app.goo.gl", "/", "abc">> }

\* what the resolve request may bring: a resolvedUrl (a full link, a page
\* without coordinates), a body without resolvedUrl, or no answer (fetch or
\* res.json() throws)
ResolveOutcomes ==
    { [kind |-> "ok", resolvedUrl |-> <<"https://", "maps.google.com", "/", "?q=", "40.7128", ",", "-74.0060">>],
      [kind |-> "ok", resolvedUrl |-> <<"https://", "consent.google.com", "/">>],
      [kind |-> "ok", resolvedUrl |-> <<>>],
      [kind |-> "throw", resolvedUrl |-> <<>>] }

\* String.prototype.trim
trimTokens(s) ==
    LET I == {i \in 1..Len(s) : s[i] # " "}
    IN IF I = {} THEN <<>>
       ELSE SubSeq(s, CHOOSE i \in I : \A j \in I : i <= j,
                      CHOOSE i \in I : \A j \in I : i >= j)

\* the first place where one of the marks is followed by lat,lng
CoordsAfter(s, marks) ==
    LET I == {i \in 1..(Len(s) - 3) :
                /\ s[i] \in marks
                /\ s[i + 1] \in Decimals /\ s[i + 2] = "," /\ s[i + 3] \in Decimals}
    IN IF I = {} THEN Null
       ELSE LET i == CHOOSE i \in I : \A j \in I : i <= j
            IN [lat |-> parseFloat(s[i + 1]), lng |-> parseFloat(s[i + 3])]

parseGoogleMapsUrl(url) ==
    LET trimmed == trimTokens(url)
        spaced == Len(trimmed) = 4 /\ trimmed[3] = " "
        rawMatch ==
            IF /\ Len(trimmed) = 3 \/ spaced
               /\ trimmed[1] \in Decimals /\ trimmed[2] = ","
               /\ trimmed[Len(trimmed)] \in Decimals
            THEN [lat |-> parseFloat(trimmed[1]), lng |-> parseFloat(trimmed[Len(trimmed)])]
            ELSE Null
        qMatch == CoordsAfter(trimmed, {"?q=", "&q=", "?ll=", "&ll=", "?center=", "&center="})
        atMatch == CoordsAfter(trimmed, {"@"})
        placeMatch == CoordsAfter(trimmed, {"/place/"})
    IN IF rawMatch # Null THEN rawMatch
       ELSE IF qMatch # Null THEN qMatch
       ELSE IF atMatch # Null THEN atMatch
       ELSE placeMatch

\* a row of the settings table
SettingsTableRow(id, lat, lng, radius) ==
    [id |-> id, restaurant_lat |-> lat, restaurant_lng |-> lng, radius_meters |-> radius]

\* the settings table before the panel opens: empty, a row without a
\* restaurant, a row with one
PanelTables ==
    { <<>>,
      <<SettingsTableRow(1, None, None, 100)>>,
      <<SettingsTableRow(1, Some(407128), Some(-740060), 25)>> }

PanelInit ==
    /\ PageInit
    /\ call = NoCall /\ login = Closed /\ dash = Closed /\ route = Closed
    /\ \E table \in PanelTables :
         panel = [open |-> TRUE, mapsLink |-> <<>>, parsedCoords |-> Null,
                  radiusMeters |-> 100, currentSettings |-> Null,
                  saving |-> FALSE, saved |-> FALSE, parseError |-> "",
                  resolving |-> FALSE,
                  loadPc |-> "select", savePc |-> "idle", updateData |-> Null,
                  timers |-> 0, db |-> table]

\* the rest of the state, which the panel leaves alone
notPanel == <<pageVars, call, login, dash, route>>

\* .limit(1).single(): no data, or one of the table's rows
SelectData(i) == IF i = 0 THEN Null ELSE panel.db[i]

\* loadSettings resumes after its query
PanelLoadSettles(i) ==
    /\ panel.open /\ panel.loadPc = "select"
    /\ i <= Len(panel.db)
    /\ LET data == SelectData(i)
       IN panel' =
            IF data = Null THEN [panel EXCEPT !.loadPc = "done"]
            ELSE [panel EXCEPT
                    !.loadPc = "done",
                    !.currentSettings = data,
                    !.radiusMeters = IF data.radius_meters = 0 THEN 100
                                     ELSE data.radius_meters,
                    !.parsedCoords =
                        IF Truthy(data.restaurant_lat) /\ Truthy(data.restaurant_lng)
                        THEN [lat |-> data.restaurant_lat[1], lng |-> data.restaurant_lng[1]]
                        ELSE panel.parsedCoords]
    /\ UNCHANGED notPanel

\* the link field's onChange
PanelSetMapsLink(v) ==
    /\ panel.open
    /\ v # panel.mapsLink
    /\ panel' = [panel EXCEPT !.mapsLink = v, !.parseError = "", !.saved = FALSE]
    /\ UNCHANGED notPanel

\* handleParse without its range test
ParseCoords_noRangeTest(p, urlValue) ==
    LET coords == parseGoogleMapsUrl(urlValue)
    IN IF coords # Null
       THEN [p EXCEPT !.parsedCoords = coords]
       ELSE [p EXCEPT !.parseError = "Could not extract coordinates.",
                      !.parsedCoords = Null]

\* the end of handleParse: the coordinates of the link, in range or none
\* (the panel's messages are kept up to their first sentence)
ParseCoords(p, urlValue) ==
    LET coords == parseGoogleMapsUrl(urlValue)
    IN IF coords # Null
       THEN IF \/ coords.lat < -900000 \/ coords.lat > 900000
               \/ coords.lng < -1800000 \/ coords.lng > 1800000
            THEN [p EXCEPT !.parseError = "Coordinates out of valid range.",
                           !.parsedCoords = Null]
            ELSE [p EXCEPT !.parsedCoords = coords]
       ELSE [p EXCEPT !.parseError = "Could not extract coordinates.",
                      !.parsedCoords = Null]

\* the Extract Coordinates button: handleParse up to its end or to its await.
\* The link field is controlled, so the fallback that reads it from the
\* document finds the value mapsLink already has.
HandleParse ==
    /\ panel.open /\ ~panel.resolving
    /\ LET p == [panel EXCEPT !.parseError = "", !.saved = FALSE]
           urlValue == panel.mapsLink
       IN panel' =
            IF \/ includes(urlValue, <<"maps.app.goo.gl">>)
               \/ includes(urlValue, <<"goo.gl", "/maps">>)
            THEN [p EXCEPT !.resolving = TRUE]
            ELSE ParseCoords(p, urlValue)
    /\ UNCHANGED notPanel

\* handleParse resumes after the resolve request
PanelResolveSettles(r) ==
    /\ panel.open /\ panel.resolving
    /\ panel' =
         IF r.kind = "ok" /\ r.resolvedUrl # <<>>
         THEN ParseCoords([panel EXCEPT !.mapsLink = r.resolvedUrl,
                                        !.resolving = FALSE],
                          r.resolvedUrl)
         ELSE IF r.kind = "ok"
         THEN [panel EXCEPT !.parseError = "Could not resolve shortened URL.",
                            !.resolving = FALSE]
         ELSE [panel EXCEPT !.parseError = "Network error resolving shortened URL.",
                            !.resolving = FALSE]
    /\ UNCHANGED notPanel

\* the radius slider, shown with the coordinates
PanelSetRadius(v) ==
    /\ panel.open /\ panel.parsedCoords # Null
    /\ v # panel.radiusMeters
    /\ panel' = [panel EXCEPT !.radiusMeters = v]
    /\ UNCHANGED notPanel

\* the Save Location button, shown with the coordinates: handleSave up to
\* its update or insert
HandleSave ==
    /\ panel.open /\ ~panel.saving
    /\ panel.parsedCoords # Null
    /\ panel' = [panel EXCEPT
                    !.saving = TRUE, !.saved = FALSE, !.parseError = "",
                    !.updateData =
                        [restaurant_lat |-> panel.parsedCoords.lat,
                         restaurant_lng |-> panel.parsedCoords.lng,
                         radius_meters |-> panel.radiusMeters,
                         id |-> IF panel.currentSettings # Null
                                THEN panel.currentSettings.id ELSE 0],
                    !.savePc = IF panel.currentSettings # Null
                               THEN "update" ELSE "insert"]
    /\ UNCHANGED notPanel

\* the settings table after the update or insert of handleSave
Written(db, savePc, u) ==
    LET row(id) == SettingsTableRow(id, Some(u.restaurant_lat),
                                    Some(u.restaurant_lng), u.radius_meters)
    IN IF savePc = "insert" THEN Append(db, row(Len(db) + 1))
       ELSE [i \in DOMAIN db |-> IF db[i].id = u.id THEN row(u.id) ELSE db[i]]

\* handleSave resumes after its update or insert
PanelSaveSettles(r) ==
    /\ panel.open /\ panel.savePc \in {"update", "insert"}
    /\ r = "ok" /\ panel.savePc = "insert" => Len(panel.db) < MaxRows
    /\ panel' =
         IF r = "ok"
         THEN [panel EXCEPT !.db = Written(panel.db, panel.savePc, panel.updateData),
                            !.savePc = "select"]
         ELSE [panel EXCEPT !.parseError = "Save failed",
                            !.saving = FALSE,
                            !.savePc = "idle", !.updateData = Null]
    /\ UNCHANGED notPanel

\* handleSave resumes after its refreshing query
PanelRefreshSettles(i) ==
    /\ panel.open /\ panel.savePc = "select"
    /\ i <= Len(panel.db)
    /\ panel.timers < MaxTimers
    /\ LET data == SelectData(i)
           p == [panel EXCEPT !.saving = FALSE, !.saved = TRUE,
                              !.timers = panel.timers + 1,
                              !.savePc = "idle", !.updateData = Null]
       IN panel' =
            IF data = Null THEN p
            ELSE [p EXCEPT !.currentSettings = data,
                           !.radiusMeters = IF data.radius_meters = 0 THEN 100
                                            ELSE data.radius_meters]
    /\ UNCHANGED notPanel

\* the timeout of handleSave, three seconds after it ended
PanelSavedExpires ==
    /\ panel.open /\ panel.timers > 0
    /\ panel' = [panel EXCEPT !.saved = FALSE, !.timers = panel.timers - 1]
    /\ UNCHANGED notPanel

PanelNext ==
    \/ \E i \in 0..MaxRows : PanelLoadSettles(i)
    \/ \E v \in MapsLinks : PanelSetMapsLink(v)
    \/ HandleParse
    \/ \E r \in ResolveOutcomes : PanelResolveSettles(r)
    \/ \E v \in {25} : PanelSetRadius(v)
    \/ HandleSave
    \/ \E r \in {"ok", "error"} : PanelSaveSettles(r)
    \/ \E i \in 0..MaxRows : PanelRefreshSettles(i)
    \/ PanelSavedExpires

SpecPanel == PanelInit /\ [][PanelNext]_vars

\* ------------------------------------------------------------------------
\* Properties
\* ------------------------------------------------------------------------

\* the platform's i-th callback of the current call reported error code c
Failed(i, c) == Len(callbacks) >= i /\ ~callbacks[i].ok /\ callbacks[i].code = c

FailedAny(i) == Len(callbacks) >= i /\ ~callbacks[i].ok

Rejected(message) == promise.state = "rejected" /\ promise.reason = message

\* the message the spec's failure kinds stand for, by platform code
KindOf(code) ==
    CASE code = 1 -> MsgPermissionDenied
      [] code = 2 -> MsgPositionUnavailable
      [] code = 3 -> MsgTimeout
      [] OTHER    -> MsgUnknown

\* C1: once the first request has failed with TIMEOUT, the call has issued
\* exactly two requests, the second with enableHighAccuracy=false,
\* timeout=15000, maximumAge=60000; if the retry has timed out too, the call
\* has failed with the Timeout kind.
C1_TimeoutRetriesOnce ==
    Failed(1, TIMEOUT) =>
        /\ Len(requests) = 2
        /\ requests[2] = [enableHighAccuracy |-> FALSE, timeout |-> 15000, maximumAge |-> 60000]
        /\ (Failed(2, TIMEOUT) => Rejected(MsgTimeout))

C1_Witness == Failed(1, TIMEOUT) /\ Failed(2, TIMEOUT) /\ Rejected(MsgTimeout)

\* C2: once the first request has failed with a code other than TIMEOUT, no
\* second request is ever issued and the call has failed with the kind of
\* that code (PermissionDenied for PERMISSION_DENIED).
C2_OtherFailureIsFinal ==
    (FailedAny(1) /\ callbacks[1].code # TIMEOUT) =>
        /\ Len(requests) = 1
        /\ Len(callbacks) = 1
        /\ Rejected(KindOf(callbacks[1].code))

C2_Witness ==
    /\ Failed(1, PERMISSION_DENIED)
    /\ Rejected(MsgPermissionDenied)
    /\ appState = "location_error"

\* C3: a call issues at most two platform requests, and the outcome of the
\* retry is the outcome of the call: its position if it succeeded, the kind
\* of its own error code if it failed.
C3_AtMostTwoRequests ==
    /\ Len(requests) <= 2
    /\ Len(callbacks) <= Len(requests)
    /\ (Len(callbacks) = 2 /\ callbacks[2].ok) =>
           /\ promise.state = "fulfilled"
           /\ promise.value = GeoPos(callbacks[2].coords.latitude,
                                     callbacks[2].coords.longitude)
    /\ FailedAny(2) => Rejected(KindOf(callbacks[2].code))

C3_Witness ==
    /\ Failed(1, TIMEOUT)
    /\ Len(callbacks) = 2
    /\ callbacks[2].ok
    /\ promise.state = "fulfilled"
    /\ appState = "ready"

\* C4 as stated: the call has failed with the Timeout kind exactly when the
\* first request timed out and the retry failed, whatever its error code.
C4_TimeoutIffRetryFailed ==
    Rejected(MsgTimeout) <=> (Failed(1, TIMEOUT) /\ FailedAny(2))

\* C4 amended: the call has failed with the Timeout kind exactly when the
\* first request timed out and the retry timed out as well; a retry failing
\* with another code fails the call with the kind of that code.
C4_TimeoutIffRetryTimedOut ==
    /\ Rejected(MsgTimeout) <=> (Failed(1, TIMEOUT) /\ Failed(2, TIMEOUT))
    /\ (Failed(1, TIMEOUT) /\ FailedAny(2)) => Rejected(KindOf(callbacks[2].code))

C4_Witness ==
    /\ Failed(1, TIMEOUT)
    /\ Failed(2, PERMISSION_DENIED)
    /\ Rejected(MsgPermissionDenied)

\* C5: without navigator.geolocation every call has failed with the
\* Unsupported kind by the time it returns, and has issued no platform request.
C5_UnsupportedFailsAtOnce ==
    (~geolocation /\ promise.state # "none") =>
        /\ Rejected(MsgUnsupported)
        /\ requests = <<>>
        /\ callbacks = <<>>

C5_Witness ==
    /\ ~geolocation
    /\ Rejected(MsgUnsupported)
    /\ rlPc = "await_position"

\* C6: the first request of a call has enableHighAccuracy=true,
\* timeout=15000, maximumAge=0, and once it has succeeded the call is resolved
\* with the latitude and longitude it reported and no second request is issued.
C6_StrictFirstRequest ==
    /\ Len(requests) >= 1 =>
           requests[1] = [enableHighAccuracy |-> TRUE, timeout |-> 15000, maximumAge |-> 0]
    /\ (Len(callbacks) >= 1 /\ callbacks[1].ok) =>
           /\ Len(requests) = 1
           /\ promise.state = "fulfilled"
           /\ promise.value = GeoPos(callbacks[1].coords.latitude,
                                     callbacks[1].coords.longitude)

C6_Witness ==
    /\ Len(callbacks) = 1
    /\ callbacks[1].ok
    /\ promise.state = "fulfilled"
    /\ promise.value = GeoPos(Restaurant.lat + 91, Restaurant.lng)

\* the user is past the location check: the form, a request under way, or
\* the success screen
Admitted == appState \in {"ready", "submitting", "success"}

\* the most recent requestLocation has run to its end with a position
CheckDone == rlPc = "idle" /\ promise.state = "fulfilled"

\* a <= b
FLe(a, b) == ~a.nan /\ ~b.nan /\ FSub(a, b).m <= 0

\* the settings row names a restaurant location: both columns non-null
LocationSet(s) == s # Null /\ s.restaurant_lat # None /\ s.restaurant_lng # None

\* the distance of the acquired position from the restaurant of the row
DistanceTo(s) == haversineDistance(pos, GeoPos(s.restaurant_lat[1], s.restaurant_lng[1]))

\* C7 as stated: after a location check against settings that name a
\* restaurant location, the page is past the check iff the distance is <= the
\* radius (the boundary included), and is in location_error otherwise.
C7_AdmittedIffWithinRadius ==
    (CheckDone /\ LocationSet(settings)) =>
        /\ Admitted <=> FLe(DistanceTo(settings), RadiusOf(settings))
        /\ ~Admitted => appState = "location_error"

\* C7 on the rows the code takes as configured (both columns non-zero as
\* well): there the statement holds, the boundary included.
C7_AdmittedIffWithinRadiusNonZero ==
    (CheckDone /\ LocationSet(settings)
        /\ settings.restaurant_lat[1] # 0 /\ settings.restaurant_lng[1] # 0) =>
        /\ Admitted <=> FLe(DistanceTo(settings), RadiusOf(settings))
        /\ ~Admitted => appState = "location_error"

\* the boundary case of C7: distance = radius = 1.001 km, admitted
C7_BoundaryReached ==
    /\ CheckDone /\ LocationSet(settings)
    /\ FEq(DistanceTo(settings), RadiusOf(settings))
    /\ FEq(RadiusOf(settings), F(1001, -3))
    /\ appState = "ready"

\* C8: a location check that loads a settings row whose restaurant lat/lng
\* are null ends in ready and evaluates nothing: distanceKm, radiusKm and
\* geoError are left as they were, whatever the position.
C8_NullLocationBypasses ==
    [][(rlPc = "await_settings" /\ rlPc' = "idle" /\ settings' # Null
          /\ settings'.restaurant_lat = None /\ settings'.restaurant_lng = None)
        => (appState' = "ready" /\ UNCHANGED <<distanceKm, radiusKm, geoError>>)]_vars

\* a position 1 km from the restaurant admitted by an unconfigured row, on
\* the first check (nothing evaluated: distanceKm is still null)
C8_Witness ==
    /\ CheckDone
    /\ settings = SettingsRow(None, None, None)
    /\ pos = GeoPos(Restaurant.lat + 90, Restaurant.lng)
    /\ distanceKm = Null
    /\ appState = "ready"

C10_OneAcquisitionInFlight ==
    /\ [](/\ inFlight <= 1
          /\ inFlight = 1 <=> rlPc # "idle"
          /\ inFlight = 1 =>
                /\ appState = "loading"
                /\ ~LocationButton(Screen(appState, result)))
    /\ [][inFlight' > inFlight =>
            appState \in {"needs_permission", "location_error"}]_vars

C10_Witness ==
    /\ inFlight = 1
    /\ appState = "loading"
    /\ Outstanding
    /\ Len(requests) = 2

\* the most recent requestLocation has ended in its catch: its acquisition failed
FailedCheck == rlPc = "idle" /\ promise.state = "rejected"

\* C11: once getCurrentPosition has failed and requestLocation has ended, the
\* page is in location_error and shows exactly the message the acquirer
\* rejected with, no platform request and no requestLocation is under way,
\* and the only step that leaves this situation is the tap on the button
\* (RequestLocation).
C11_FailureShownUntilTap ==
    /\ [](FailedCheck =>
            /\ appState = "location_error"
            /\ geoError = Text(promise.reason)
            /\ promise.reason \in {MsgUnsupported, MsgPermissionDenied,
                                   MsgPositionUnavailable, MsgTimeout, MsgUnknown}
            /\ ~Outstanding
            /\ inFlight = 0)
    /\ [][FailedCheck =>
            \/ UNCHANGED <<appState, geoError, geoVars, rlVars>>
            \/ /\ LocationButton(Screen(appState, result))
               /\ rlPc' = "await_position"
               /\ inFlight' = 1]_vars

\* a check failed by two timeouts shows the timeout message
C11_Witness ==
    /\ FailedCheck
    /\ Failed(1, TIMEOUT) /\ Failed(2, TIMEOUT)
    /\ appState = "location_error"
    /\ geoError = Text(MsgTimeout)

\* C12: whenever the page is in location_error the tap that starts a new
\* acquisition is possible; a requestLocation that reaches the geofence with a
\* position within the radius ends in ready, whatever earlier checks found;
\* and one requestLocation calls haversineDistance at most once, exactly once
\* when it has evaluated the geofence.
C12_TooFarIsNotTerminal ==
    /\ [](appState = "location_error" => ENABLED RequestLocation)
    /\ [](evals <= 1)
    /\ [](CheckDone /\ Configured(settings) => evals = 1)
    /\ [][(/\ rlPc = "await_settings"
           /\ rlPc' = "idle"
           /\ Configured(settings')
           /\ FLe(haversineDistance(pos, RestaurantOf(settings')), RadiusOf(settings')))
          => appState' = "ready"]_vars

\* admitted within the radius after an earlier out-of-geofence verdict
C12_Witness ==
    /\ tooFarSeen
    /\ CheckDone
    /\ Configured(settings)
    /\ appState = "ready"
    /\ evals = 1
    /\ FLe(distanceKm, radiusKm)

\* radius_meters / 1000 of a settings row, 0.1 km when radius_meters is unset
ConfiguredRadiusKm(s) ==
    IF s.radius_meters = None THEN F(1000, -4) ELSE Norm(s.radius_meters[1], -3)

\* C13: the radius the page holds is always a positive number; a check that
\* evaluates the geofence compares the distance against radius_meters / 1000
\* of its settings row, or against 0.1 km when the row's radius_meters is
\* unset, and that radius is the one the page holds afterwards.
C13_RadiusPositive ==
    /\ [](radiusKm.m > 0)
    /\ [](CheckDone /\ Configured(settings) => radiusKm = ConfiguredRadiusKm(settings))
    /\ [][(rlPc = "await_settings" /\ rlPc' = "idle" /\ Configured(settings'))
          => /\ radiusKm' = ConfiguredRadiusKm(settings')
             /\ radiusKm'.m > 0
             /\ (appState' = "location_error") = FGt(distanceKm', ConfiguredRadiusKm(settings'))
             /\ (appState' = "ready") = ~FGt(distanceKm', ConfiguredRadiusKm(settings'))]_vars

\* a check against a row with radius_meters unset has compared a distance
\* just over 100 m with 0.1 km and refused it
C13_Witness ==
    /\ CheckDone
    /\ Configured(settings)
    /\ settings.radius_meters = None
    /\ radiusKm = F(1000, -4)
    /\ distanceKm = F(1001, -4)
    /\ appState = "location_error"

\* the texts the page has in language l
LocalizedTexts(l) == {translations[l][k] : k \in DOMAIN translations[l]}

\* the acquirer's five messages
AcquirerMessages ==
    {MsgUnsupported, MsgPermissionDenied, MsgPositionUnavailable, MsgTimeout, MsgUnknown}

\* the language a text is written in: the acquirer's messages are English
\* sentences, the page's other texts come from the table of their language
LanguageOf(s) == IF s \in LocalizedTexts("es") THEN "es" ELSE "en"

\* the five messages are pairwise distinct, and a failed call carries the
\* message of the one kind its last platform code (or the missing
\* capability) is classified into
C14_DistinctAndClassified ==
    /\ Cardinality(AcquirerMessages) = 5
    /\ promise.state = "rejected" =>
         promise.reason = IF requests = <<>>
                          THEN MsgUnsupported
                          ELSE KindOf(callbacks[Len(callbacks)].code)

\* C14: the five failure kinds have five pairwise distinct messages, every
\* platform code is classified into exactly one kind (an unrecognised code
\* into Unknown), and the message a failed acquisition hands to the page is
\* in the language the user had selected when the check began.
C14_DistinctLocalizedMessages ==
    /\ C14_DistinctAndClassified
    /\ (rlPc = "await_position" /\ promise.state = "rejected")
         => LanguageOf(promise.reason) = rlLang

\* the call of fn has returned
Returned(fn) == call.fn = fn /\ call.done

\* the number m * 10^e is below 1 (m is 0 or has four digits)
BelowOne(x) == x.m <= 0 \/ x.e <= -4

\* n is an integer nearest to m * 10^(e + k)
NearestTo(n, x, k) ==
    LET s == x.e + k
    IN  IF s >= 0
        THEN n = x.m * Pow10(s)
        ELSE 2 * Abs(n * Pow10(-s) - x.m) <= Pow10(-s)

\* C15: formatDistance renders a value below 1 km as "<n>m" with n the whole
\* number of meters nearest to it, and a value of 1 km or more as "<n>.<d>km"
\* with one decimal digit d and n.d the number of tenths of a kilometer
\* nearest to it; the other language gives the same result.
C15_MetersBelowOneKm ==
    Returned("formatDistance") =>
        LET d == call.out.digits
        IN  /\ IF BelowOne(call.km)
               THEN /\ d.unit = "m"
                    /\ d.tenth = None
                    /\ NearestTo(d.whole, call.km, 3)
               ELSE /\ d.unit = "km"
                    /\ Len(d.tenth) = 1
                    /\ d.tenth[1] \in 0..9
                    /\ d.whole >= 1
                    /\ NearestTo(10 * d.whole + d.tenth[1], call.km, 1)
            /\ \A l \in Langs : formatDistance(call.km, l) = d

\* 0.9999 km has been rendered as "1000m" and 9.999 km as "10.0km"
C15_Witness ==
    /\ Returned("formatDistance")
    /\ \/ /\ call.km = F(9999, -4)
          /\ call.out.digits = [whole |-> 1000, tenth |-> None, unit |-> "m"]
       \/ /\ call.km = F(9999, -3)
          /\ call.out.digits = [whole |-> 10, tenth |-> Some(0), unit |-> "km"]

\* latitude within -90..90 and longitude within -180..180 degrees
ValidPosition(p) ==
    /\ p.lat >= -900000 /\ p.lat <= 900000
    /\ p.lng >= -1800000 /\ p.lng <= 1800000

\* C16: for valid positions a and b, haversineDistance(a, b) is the same
\* number as haversineDistance(b, a).
C16_Symmetric ==
    (Returned("haversineDistance") /\ ValidPosition(call.a) /\ ValidPosition(call.b))
        => call.out.number = haversineDistance(call.b, call.a)

\* the distance between two valid places of different latitude and longitude
C16_Witness ==
    /\ Returned("haversineDistance")
    /\ ValidPosition(call.a) /\ ValidPosition(call.b)
    /\ call.a.lat # call.b.lat
    /\ call.a.lng # call.b.lng
    /\ call.out.number.m > 0

\* radii in meters a settings row may carry
SomeRadii == {1, 25, 100, 5000}

\* C17: for a valid position a, haversineDistance(a, a) is exactly 0, so the
\* distance does not exceed any positive radius and a device at the
\* restaurant's coordinates gets the verdict ready.
C17_ZeroAtSamePlace ==
    (Returned("haversineDistance") /\ ValidPosition(call.a) /\ call.b = call.a)
        => /\ call.out.number = Zero
           /\ \A r \in SomeRadii :
                /\ ~FGt(call.out.number, Norm(r, -3))
                /\ Verdict(SettingsRow(Some(call.a.lat), Some(call.a.lng), Some(r)),
                           call.a) = "ready"

\* the distance from the restaurant to itself
C17_Witness ==
    /\ Returned("haversineDistance")
    /\ call.a = GeoPos(Restaurant.lat, Restaurant.lng)
    /\ call.b = call.a
    /\ call.out.number = Zero

\* C18: haversineDistance called with a position whose latitude is outside
\* -90..90 or whose longitude is outside -180..180 fails with an error and
\* returns no distance.
C18_InvalidCoordinateRejected ==
    (Returned("haversineDistance") /\ ~(ValidPosition(call.a) /\ ValidPosition(call.b)))
        => call.out.threw

\* C19: after a requestLocation that acquired a position has ended, the
\* stored position is the one its acquisition returned; and whenever the
\* form is shown with a distance held, that distance was computed by the
\* most recent requestLocation, from the stored position and the restaurant
\* of the settings that check read.
C19_NothingCarriedOver ==
    /\ CheckDone => position = promise.value
    /\ (Screen(appState, result) = "form" /\ distanceKm # Null)
         => /\ evals = 1
            /\ Configured(settings)
            /\ distanceKm = haversineDistance(position, RestaurantOf(settings))

ClockRefused == trim(staffCode) = "" \/ trim(pin) = "" \/ position = Null

\* C21: while the form is enabled with a blank staff code or PIN, or with no
\* stored position, handleClock can run, and no step sends a request or
\* changes appState, position or result; the only message a step can set is
\* the one asking for both fields, or the one about the missing location
\* when both fields are filled.
C21_BlankInputSendsNothing ==
    /\ []((FormEnabled(appState, result) /\ ClockRefused)
            => \A a \in {"check_in", "check_out"} : ENABLED HandleClock(a))
    /\ [][(FormEnabled(appState, result) /\ ClockRefused)
            => /\ UNCHANGED <<appState, position, result, fetches, hcPc>>
               /\ error' # error
                    => error' = IF trim(staffCode) = "" \/ trim(pin) = ""
                                THEN t(lang, "enterBoth")
                                ELSE t(lang, "noLocation")]_vars

\* handleClock has answered a whitespace-only staff code with the message
C21_Witness ==
    /\ appState = "ready"
    /\ staffCode = " "
    /\ pin = "1234"
    /\ error = t(lang, "enterBoth")
    /\ fetches = <<>>
    /\ result = Null

\* C22: a location check whose settings query gave no row (it failed or the
\* table is empty) does not admit the user, and a check that admits without
\* calling the evaluator has loaded a row whose restaurant latitude or
\* longitude is null.
C22_BypassNeedsLoadedSettings ==
    /\ (CheckDone /\ settings = Null) => ~Admitted
    /\ (CheckDone /\ Admitted /\ evals = 0) => (settings # Null /\ ~LocationSet(settings))

\* C23: a location check that loaded a row with both restaurant columns
\* non-null, 0 included, has called the evaluator, and has admitted the user
\* only with a distance <= the radius.
C23_ZeroCoordinatesEvaluated ==
    (CheckDone /\ LocationSet(settings)) =>
        /\ evals = 1
        /\ Admitted => FLe(DistanceTo(settings), RadiusOf(settings))

\* the promise of the current call has settled
Settled == promise.state \in {"fulfilled", "rejected"}

\* C24: a settled promise is either fulfilled with a position and no reason
\* or rejected with one of the five messages and no position; once settled
\* it keeps its outcome until the next call of getCurrentPosition replaces
\* it; it settles in the very step of a platform callback; and once every
\* request the call has issued has had its callback, it is settled.
C24_SettlesExactlyOnce ==
    /\ [](promise.state = "fulfilled" => promise.value # Null /\ promise.reason = "")
    /\ [](promise.state = "rejected" =>
            promise.value = Null /\ promise.reason \in AcquirerMessages)
    /\ [](promise.state = "pending" => Outstanding)
    /\ []((promise.state # "none" /\ ~Outstanding) => Settled)
    /\ [][(Settled /\ promise' # promise) =>
            /\ appState' = "loading" /\ rlPc' = "await_position"
            /\ callbacks' = <<>>]_vars
    /\ [][(promise.state = "pending" /\ Settled') =>
            Len(callbacks') = Len(callbacks) + 1]_vars

\* a call whose first request timed out and whose retry failed with an
\* unrecognised code has settled as rejected with the unknown-error message
C24_Witness ==
    /\ Failed(1, TIMEOUT)
    /\ Failed(2, 0)
    /\ ~Outstanding
    /\ Rejected(MsgUnknown)

C26_SessionOnlyAfterBothChecks ==
    /\ [](login.session # Null =>
            /\ login.path = "/admin/dashboard"
            /\ \E row \in StaffTable :
                 /\ row.role = "admin" /\ row.active
                 /\ row.staff_code = toUpperCase(loginTrim(login.staffCode))
                 /\ row.pin = loginTrim(login.pin)
                 /\ login.session.id = row.id
                 /\ login.session.staff_code = row.staff_code
                 /\ login.session.name = row.name)
    /\ [](login.path = "/admin/dashboard" => login.session # Null)
    /\ [][login'.session # login.session =>
            login.pc = "await_pin" /\ login.session = Null]_vars
    /\ [][(login.pc # "idle" /\ login'.pc = "idle" /\ login'.path = "/admin") =>
            /\ login'.session = Null
            /\ login'.error # ""
            /\ ~login'.loading]_vars

\* the active admin has logged in with the right PIN
C26_Witness ==
    /\ login.open
    /\ login.session # Null
    /\ login.session.id = "u1"
    /\ login.pin = "1234"
    /\ login.path = "/admin/dashboard"

\* C27: whenever the dashboard is shown (admin set, loading false), an
\* admin_session is stored whose loginAt is at most 2 hours old, and no
\* operation on the database has been made with a session older than 2 hours.
C27_SessionExpiresAfterTwoHours ==
    (dash.open /\ dash.mounted) =>
        /\ DashShown =>
             /\ dash.admin # Null
             /\ dash.session # Null
             /\ dash.now - dash.session.loginAt <= SessionHours
        /\ dash.opAge <= SessionHours

\* C30: once a handleStaffSubmit for an existing staff member has ended with
\* an error, the PIN, name, code and role of the stored row are what they
\* were when the form was submitted.
C30_FailedEditChangesNothing ==
    (dash.open /\ dash.pc = "idle" /\ dash.staffFormError # "" /\ dash.editingStaff # Null) =>
        /\ dash.db.pin = dash.before.pin
        /\ dash.db.name = dash.before.name
        /\ dash.db.staff_code = dash.before.staff_code
        /\ dash.db.role = dash.before.role

\* s is a link of a Google Maps shortener: its host is maps.app.goo.gl, or
\* its host is goo.gl and its path begins with /maps
IsShortMapsLink(s) ==
    /\ Len(s) >= 3
    /\ s[1] \in {"https://", "http://"}
    /\ \/ s[2] = "maps.app.goo.gl"
       \/ s[2] = "goo.gl" /\ s[3] = "/maps"

\* C28: every URL the endpoint has fetched is a maps.app.goo.gl or
\* goo.gl/maps link; a request whose body has no url, a url that is no
\* string, or a url that is no such link was answered 400 with no fetch made
\* for it; and a request answered after a fetch got 200, or 500 when the
\* fetch failed.
C28_OnlyShortMapsLinksFetched ==
    route.open =>
        /\ \A i \in 1..Len(route.fetched) : IsShortMapsLink(route.fetched[i])
        /\ \A i \in 1..Len(route.log) :
             LET e == route.log[i]
                 before == IF i = 1 THEN 0 ELSE route.log[i - 1].fetches
             IN  /\ (e.body.json = "object" /\ (e.body.url.type # "string"
                                                \/ ~IsShortMapsLink(e.body.url.s)))
                       => (e.status = 400 /\ e.fetches = before)
                 /\ e.fetches > before => e.status \in {200, 500}

\* latitude in -90..90 and longitude in -180..180
InRange(lat, lng) ==
    /\ lat >= -900000 /\ lat <= 900000
    /\ lng >= -1800000 /\ lng <= 1800000

\* the panel's coordinates, the data of a save under way and every row of the
\* settings table are in range or absent
CoordinatesInRange ==
    /\ panel.parsedCoords # Null =>
           InRange(panel.parsedCoords.lat, panel.parsedCoords.lng)
    /\ panel.updateData # Null =>
           InRange(panel.updateData.restaurant_lat, panel.updateData.restaurant_lng)
    /\ \A i \in DOMAIN panel.db :
           /\ panel.db[i].restaurant_lat # None /\ panel.db[i].restaurant_lng # None
           => InRange(panel.db[i].restaurant_lat[1], panel.db[i].restaurant_lng[1])

\* the row that the update or insert of handleSave wrote carries its data
SavedAsAsked ==
    panel.savePc = "select" =>
        \E i \in DOMAIN panel.db :
            /\ panel.db[i].restaurant_lat = Some(panel.updateData.restaurant_lat)
            /\ panel.db[i].restaurant_lng = Some(panel.updateData.restaurant_lng)
            /\ panel.db[i].radius_meters = panel.updateData.radius_meters

\* the panel shows that handleParse found no coordinates in range in its link
ParseRefused ==
    panel.parseError \in {"Could not extract coordinates.",
                          "Coordinates out of valid range."}

====
